---- MODULE Spec2Model ----
(***************************************************************************)
(* Model of bukkit-plugins/deploy-helper/deploy.py: the Uploader class     *)
(* (construction, changelog extraction, save_changelog, upload_modrinth,   *)
(* upload_curseforge) and the __main__ sequence that drives it.            *)
(*                                                                         *)
(* Python strings that the code inspects character by character are        *)
(* sequences of one-character strings; opaque values (project ids, URLs)   *)
(* are TLA+ strings.                                                       *)
(***************************************************************************)
EXTENDS Integers, Sequences, FiniteSets, TLC

VARIABLES
    pc,                        \* position of the process
    jars,                      \* number of files matching <root>/target/*.jar
    pom,                       \* pom.xml: what find("bukkit-api-version") yields
    changelog_file,            \* <root>/CHANGELOG.md: existence and raw lines
    version,                   \* CI_COMMIT_TAG
    modrinth_project_id,       \* os.getenv("MODRINTH_PROJECT_ID")
    curseforge_project_id,     \* os.getenv("CURSEFORGE_PROJECT_ID")
    minimum_game_version,      \* local of __init__ after get_base_version
    supported_game_versions,   \* self.supported_game_versions
    changelog,                 \* self.changelog
    warned,                    \* the logging.warning of the changelog reader fired
    ci_release,                \* <root>/ci-release.md
    requests,                  \* HTTP exchanges so far, in order
    error                      \* the uncaught exception that ended the run, if any

vars == <<pc, jars, pom, changelog_file, version, modrinth_project_id,
          curseforge_project_id, minimum_game_version, supported_game_versions,
          changelog, warned, ci_release, requests, error>>

(***************************************************************************)
(* Bounds of the model.                                                    *)
(***************************************************************************)
MaxLines == 3      \* longest changelog document, in lines
MaxVerLen == 5     \* longest version string given to get_base_version
MaxRecords == 2    \* longest game-version list answered by CurseForge

(***************************************************************************)
(* Characters and Python string primitives.                                *)
(***************************************************************************)
Digits == {"0","1","2","3","4","5","6","7","8","9"}

Whitespace == {" ", "\t", "\n", "\r"}

RECURSIVE LStripChars(_, _)
LStripChars(s, cs) ==
    IF s # <<>> /\ Head(s) \in cs THEN LStripChars(Tail(s), cs) ELSE s

RECURSIVE RStripChars(_, _)
RStripChars(s, cs) ==
    IF s # <<>> /\ s[Len(s)] \in cs
    THEN RStripChars(SubSeq(s, 1, Len(s) - 1), cs)
    ELSE s

\* str.strip(chars)
StripChars(s, cs) == RStripChars(LStripChars(s, cs), cs)

\* str.strip()
Strip(s) == StripChars(s, Whitespace)

\* str.startswith(prefix)
StartsWith(s, prefix) ==
    Len(s) >= Len(prefix) /\ SubSeq(s, 1, Len(prefix)) = prefix

\* sep.join(parts)
RECURSIVE Join(_, _)
Join(parts, sep) ==
    IF parts = <<>> THEN <<>>
    ELSE IF Len(parts) = 1 THEN parts[1]
    ELSE parts[1] \o sep \o Join(Tail(parts), sep)

AllIn(s, cs) == \A i \in 1..Len(s) : s[i] \in cs

\* faulty variant of IndexOf: an absent element is taken to sit at the front
IndexOfOrFirst(list, x) ==
    IF \E i \in 1..Len(list) : list[i] = x
    THEN CHOOSE i \in 1..Len(list) :
            list[i] = x /\ \A j \in 1..(i - 1) : list[j] # x
    ELSE 1

\* list.index(x): position of the first element equal to x, 0 when absent
\* (Python raises ValueError there)
IndexOf(list, x) ==
    IF \E i \in 1..Len(list) : list[i] = x
    THEN CHOOSE i \in 1..Len(list) :
            list[i] = x /\ \A j \in 1..(i - 1) : list[j] # x
    ELSE 0

AVAILABLE_GAME_VERSIONS ==
    <<
      <<"1",".","1","2">>,
      <<"1",".","1","2",".","1">>,
      <<"1",".","1","2",".","2">>,
      <<"1",".","1","3">>,
      <<"1",".","1","3",".","1">>,
      <<"1",".","1","3",".","2">>,
      <<"1",".","1","4">>,
      <<"1",".","1","4",".","1">>,
      <<"1",".","1","4",".","2">>,
      <<"1",".","1","4",".","3">>,
      <<"1",".","1","4",".","4">>,
      <<"1",".","1","5">>,
      <<"1",".","1","5",".","1">>,
      <<"1",".","1","5",".","2">>,
      <<"1",".","1","6">>,
      <<"1",".","1","6",".","1">>,
      <<"1",".","1","6",".","2">>,
      <<"1",".","1","6",".","3">>,
      <<"1",".","1","6",".","4">>,
      <<"1",".","1","6",".","5">>,
      <<"1",".","1","7">>,
      <<"1",".","1","7",".","1">>,
      <<"1",".","1","8">>,
      <<"1",".","1","8",".","1">>,
      <<"1",".","1","8",".","2">>,
      <<"1",".","1","9">>,
      <<"1",".","1","9",".","1">>,
      <<"1",".","1","9",".","2">>,
      <<"1",".","1","9",".","3">>,
      <<"1",".","1","9",".","4">>,
      <<"1",".","2","0">>,
      <<"1",".","2","0",".","1">>
    >>

(***************************************************************************)
(* Uploader.get_base_version                                               *)
(*   re.match(r"^([0-9]+.[0-9]+).?([0-9]+)?", version)                     *)
(* The first [0-9]+ is greedy and backtracks: it ends at the largest a     *)
(* such that version[a+1] exists (the unescaped "." matches any character  *)
(* but a newline) and version[a+2] is a digit.  The second [0-9]+ takes    *)
(* the whole digit run from a+2 to b.  ".?" then takes version[b+1] if it  *)
(* exists and group 2 takes the digit run from b+2; since the match        *)
(* succeeds without group 2 as well, the engine never backtracks to give   *)
(* group 2 a value.                                                        *)
(***************************************************************************)
RegexDot(c) == c # "\n"

\* end of the maximal run of digits of s that starts at position from
RECURSIVE DigitRunEnd(_, _)
DigitRunEnd(s, from) ==
    IF from + 1 <= Len(s) /\ s[from + 1] \in Digits
    THEN DigitRunEnd(s, from + 1)
    ELSE from

BaseVersionMatch(v) ==
    LET As == {a \in 1..Len(v) :
                  /\ AllIn(SubSeq(v, 1, a), Digits)
                  /\ a + 2 <= Len(v)
                  /\ RegexDot(v[a + 1])
                  /\ v[a + 2] \in Digits}
    IN  IF As = {}
        THEN [matched |-> FALSE, group1 |-> <<>>, has2 |-> FALSE]
        ELSE LET a == CHOOSE x \in As : \A y \in As : y <= x
                 b == DigitRunEnd(v, a + 2)
             IN  [matched |-> TRUE,
                  group1  |-> SubSeq(v, 1, b),
                  has2    |-> /\ b + 2 <= Len(v)
                              /\ RegexDot(v[b + 1])
                              /\ v[b + 2] \in Digits]

get_base_version(v) ==
    LET match == BaseVersionMatch(v)
    IN  IF ~match.matched \/ ~match.has2 THEN v ELSE match.group1

(***************************************************************************)
(* Uploader.get_changelog_entries_for_version                              *)
(***************************************************************************)
H2Prefix == <<"#", "#", " ">>

\* re.match(r"^([0-9.]+) \((\d{4}-\d{2}-\d{2})\)$", header_line):
\* group 1 is everything before the final " (dddd-dd-dd)".
HeaderMatch(h) ==
    LET n == Len(h)
        ok == /\ n >= 14
              /\ AllIn(SubSeq(h, 1, n - 13), Digits \cup {"."})
              /\ h[n - 12] = " "
              /\ h[n - 11] = "("
              /\ AllIn(SubSeq(h, n - 10, n - 7), Digits)
              /\ h[n - 6] = "-"
              /\ AllIn(SubSeq(h, n - 5, n - 4), Digits)
              /\ h[n - 3] = "-"
              /\ AllIn(SubSeq(h, n - 2, n - 1), Digits)
              /\ h[n] = ")"
    IN  [matched |-> ok,
         group1  |-> IF ok THEN SubSeq(h, 1, n - 13) ELSE <<>>]

\* faulty variant of ChangelogLoop: a level-2 heading that does not match the
\* pattern is skipped before is_in_version_section is reset
RECURSIVE ChangelogLoopKeepsSection(_, _, _, _, _)
ChangelogLoopKeepsSection(lines, i, ver, is_in_version_section, section_lines) ==
    IF i > Len(lines) THEN section_lines
    ELSE LET line == Strip(lines[i])
         IN  IF StartsWith(line, H2Prefix)
             THEN LET header_line == Strip(StripChars(line, {"#"}))
                      match == HeaderMatch(header_line)
                  IN  ChangelogLoopKeepsSection(lines, i + 1, ver,
                          IF match.matched THEN match.group1 = ver
                                           ELSE is_in_version_section,
                          section_lines)
             ELSE IF is_in_version_section
             THEN ChangelogLoopKeepsSection(lines, i + 1, ver, TRUE,
                                            Append(section_lines, line))
             ELSE ChangelogLoopKeepsSection(lines, i + 1, ver, FALSE,
                                            section_lines)

\* the body of "for line in file", from line i on, with the loop's locals
RECURSIVE ChangelogLoop(_, _, _, _, _)
ChangelogLoop(lines, i, ver, is_in_version_section, section_lines) ==
    IF i > Len(lines) THEN section_lines
    ELSE LET line == Strip(lines[i])
         IN  IF StartsWith(line, H2Prefix)
             THEN LET header_line == Strip(StripChars(line, {"#"}))
                      match == HeaderMatch(header_line)
                  IN  ChangelogLoop(lines, i + 1, ver,
                                    match.matched /\ match.group1 = ver,
                                    section_lines)
             ELSE IF is_in_version_section
             THEN ChangelogLoop(lines, i + 1, ver, TRUE,
                                Append(section_lines, line))
             ELSE ChangelogLoop(lines, i + 1, ver, FALSE, section_lines)

\* "if not section_lines: logging.warning(...)"
ChangelogWarns(section_lines) == section_lines = <<>>

get_changelog_entries_for_version(lines, ver) ==
    LET section_lines == ChangelogLoop(lines, 1, ver, FALSE, <<>>)
    IN  [warned  |-> ChangelogWarns(section_lines),
         excerpt |-> Strip(Join(section_lines, <<"\n">>))]

(***************************************************************************)
(* Inputs of a run: files under CI_PROJECT_DIR and environment values.     *)
(***************************************************************************)
DefaultMinimum == <<"1", ".", "1", "4", ".", "4">>

V120 == <<"1", ".", "2", ".", "0">>

V110 == <<"1", ".", "1", ".", "0">>

V999 == <<"9", ".", "9", ".", "9">>

Date == <<"(", "2", "0", "2", "3", "-", "0", "1", "-", "0", "1", ")">>

Heading(v) == H2Prefix \o v \o <<" ">> \o Date

\* raw lines a CHANGELOG.md is made of
LinePool ==
    { Heading(V120),
      Heading(V110),
      <<" ">> \o Heading(V120) \o <<" ", "#", "#">>,
      <<"#", "#", " ", "N", "e", "x", "t">>,
      <<"#", "#", "#", " ", "F", "i", "x">>,
      <<"A">>,
      <<" ", "B", "\t">>,
      <<>> }

RECURSIVE SeqsUpTo(_, _)
SeqsUpTo(S, n) ==
    IF n = 0 THEN {<<>>}
    ELSE LET shorter == SeqsUpTo(S, n - 1)
         IN  shorter \cup {Append(s, x) : s \in shorter, x \in S}

Documents == SeqsUpTo(LinePool, MaxLines)

TargetVersions == {V120, V110, V999}

\* characters of the strings given to get_base_version
VersionChars == {"1", "4", ".", "-"}

VersionStrings == SeqsUpTo(VersionChars, MaxVerLen)

NoFile == [exists |-> FALSE, lines |-> <<>>]

File(lines) == [exists |-> TRUE, lines |-> lines]

\* CHANGELOG.md of a whole run
RunChangelogs ==
    { NoFile,
      File(<<Heading(V120), <<"A">>, <<>>, Heading(V110), <<"C">>>>),
      File(<<Heading(V120), <<>>, Heading(V110), <<"C">>>>) }

\* pom.xml: unreadable, without the property, with an empty property
\* element (text is None), or with a text
PomText(t) == [kind |-> "text", text |-> t]

Poms ==
    { [kind |-> "unreadable", text |-> <<>>],
      [kind |-> "absent", text |-> <<>>],
      [kind |-> "empty", text |-> <<>>],
      PomText(<<"1", ".", "1", "6">>),
      PomText(<<" ", "1", ".", "1", "2", ".", "2", "\n">>),
      PomText(<<"1", ".", "2", "0", ".", "1">>),
      PomText(<<"1", ".", "2", "1">>),
      PomText(<<"1", ".", "8", ".", "8">>) }

\* an environment value: None when unset, else a string
Unset == [set |-> FALSE, value |-> ""]

EnvValue(s) == [set |-> TRUE, value |-> s]

EnvValues == {Unset, EnvValue(""), EnvValue("proj")}

\* faulty variant of Truthy: the guard lets every value through
TruthyAlways(env) == TRUE

\* "if modrinth_project_id:" / "if curseforge_project_id:"
Truthy(env) == env.set /\ env.value # ""

(***************************************************************************)
(* HTTP.  Every request is logged, in order, with the status answered.     *)
(***************************************************************************)
Statuses == {200, 304, 404, 500}

\* faulty variant of RaisesForStatus: only 5xx raises
RaisesOnlyServerError(status) == 500 <= status /\ status < 600

\* requests.Response.raise_for_status: HTTPError for 4xx and 5xx
RaisesForStatus(status) == 400 <= status /\ status < 600

Is2xx(status) == 200 <= status /\ status < 300

ModrinthUrl == "https://api.modrinth.com/v2/version"

CurseforgeVersionsUrl == "https://minecraft.curseforge.com/api/game/versions"

CurseforgeUploadUrl == "https://minecraft.curseforge.com/api/projects/{project_id}/upload-file"

\* a JSON scalar used as id: the number n, or the string of n's digits
JsonInt(n) == [type |-> "int", val |-> n]

JsonStr(n) == [type |-> "str", val |-> n]

GameVersion(id, typeId, name) ==
    [id |-> id, gameVersionTypeID |-> typeId, name |-> name]

\* records the CurseForge game-version list is made of
RecordPool ==
    { GameVersion(JsonInt(7), 1, <<"1", ".", "2", "0", ".", "1">>),
      GameVersion(JsonInt(8), 2, <<"1", ".", "2", "0", ".", "1">>),
      GameVersion(JsonInt(9), 1, <<"1", ".", "1", "2">>),
      GameVersion(JsonStr(5), 1, <<"1", ".", "2", "0">>) }

\* what response.json() yields: not JSON (raises), an object with keys,
\* an empty object, or a list of records
Bodies ==
    { [kind |-> k, items |-> <<>>] : k \in {"notjson", "object", "emptyobject"} }
    \cup { [kind |-> "list", items |-> l] : l \in SeqsUpTo(RecordPool, MaxRecords) }

Exchange(method, url, project, status) ==
    [method |-> method, url |-> url, project_id |-> project, status |-> status,
     body |-> [kind |-> "none", items |-> <<>>],
     changelog |-> <<>>, game_versions |-> <<>>,
     changelogType |-> "", releaseType |-> ""]

(***************************************************************************)
(* Uploader.__init__                                                       *)
(***************************************************************************)
NoError == [type |-> "", where |-> ""]

Raise(type, where) ==
    /\ pc' = "error"
    /\ error' = [type |-> type, where |-> where]

\* faulty variant of SupportedFrom: the slice starts one entry late
SupportedFromNext(index) ==
    SubSeq(AVAILABLE_GAME_VERSIONS, index + 1, Len(AVAILABLE_GAME_VERSIONS))

\* AVAILABLE_GAME_VERSIONS[AVAILABLE_GAME_VERSIONS.index(minimum):]
SupportedFrom(index) ==
    SubSeq(AVAILABLE_GAME_VERSIONS, index, Len(AVAILABLE_GAME_VERSIONS))

Construct ==
    /\ pc = "start"
    /\ UNCHANGED <<jars, pom, changelog_file, version, modrinth_project_id,
                   curseforge_project_id, ci_release, requests>>
    /\ IF jars = 0
       THEN /\ Raise("IndexError", "__init__")
            /\ UNCHANGED <<minimum_game_version, supported_game_versions,
                           changelog, warned>>
       ELSE IF pom.kind = "unreadable"
       THEN /\ Raise("ParseError", "__init__")
            /\ UNCHANGED <<minimum_game_version, supported_game_versions,
                           changelog, warned>>
       ELSE IF pom.kind = "empty"
       THEN /\ Raise("AttributeError", "__init__")
            /\ UNCHANGED <<minimum_game_version, supported_game_versions,
                           changelog, warned>>
       ELSE LET declared == IF pom.kind = "text" THEN Strip(pom.text)
                                                 ELSE DefaultMinimum
                minimum == get_base_version(declared)
                index == IndexOf(AVAILABLE_GAME_VERSIONS, minimum)
                entries == get_changelog_entries_for_version(
                               changelog_file.lines, version)
            IN  /\ minimum_game_version' = minimum
                /\ IF index = 0
                   THEN /\ Raise("ValueError", "__init__")
                        /\ UNCHANGED <<supported_game_versions, changelog,
                                       warned>>
                   ELSE /\ supported_game_versions' = SupportedFrom(index)
                        /\ IF changelog_file.exists
                           THEN /\ changelog' = entries.excerpt
                                /\ warned' = entries.warned
                           ELSE /\ changelog' = <<>>
                                /\ warned' = FALSE
                        /\ pc' = "constructed"
                        /\ error' = error

(***************************************************************************)
(* Uploader.save_changelog                                                 *)
(***************************************************************************)
SaveChangelog ==
    /\ pc = "constructed"
    /\ ci_release' = [written |-> TRUE, content |-> changelog]
    /\ pc' = "saved"
    /\ UNCHANGED <<jars, pom, changelog_file, version, modrinth_project_id,
                   curseforge_project_id, minimum_game_version,
                   supported_game_versions, changelog, warned, requests,
                   error>>

(***************************************************************************)
(* Uploader.upload_modrinth and its guard in __main__                      *)
(***************************************************************************)
ModrinthPost(project_id, status) ==
    [Exchange("POST", ModrinthUrl, project_id, status) EXCEPT
        !.changelog = changelog,
        !.game_versions = supported_game_versions,
        !.releaseType = "release"]

\* faulty variant of upload_modrinth: a failed POST is sent a second time
upload_modrinth_retry(project_id) ==
    \E status \in Statuses, second \in Statuses :
        IF RaisesForStatus(status)
        THEN /\ requests' = requests \o <<ModrinthPost(project_id, status),
                                           ModrinthPost(project_id, second)>>
             /\ IF RaisesForStatus(second)
                THEN Raise("HTTPError", "upload_modrinth")
                ELSE pc' = "modrinth_done" /\ error' = error
        ELSE /\ requests' = Append(requests, ModrinthPost(project_id, status))
             /\ pc' = "modrinth_done"
             /\ error' = error

upload_modrinth(project_id) ==
    \E status \in Statuses :
        /\ requests' = Append(requests, ModrinthPost(project_id, status))
        /\ IF RaisesForStatus(status)
           THEN Raise("HTTPError", "upload_modrinth")
           ELSE pc' = "modrinth_done" /\ error' = error

MainModrinth ==
    /\ pc = "saved"
    /\ IF Truthy(modrinth_project_id)
       THEN upload_modrinth(modrinth_project_id.value)
       ELSE pc' = "modrinth_done" /\ UNCHANGED <<requests, error>>
    /\ UNCHANGED <<jars, pom, changelog_file, version, modrinth_project_id,
                   curseforge_project_id, minimum_game_version,
                   supported_game_versions, changelog, warned, ci_release>>

(***************************************************************************)
(* Uploader.upload_curseforge and its guard in __main__                    *)
(***************************************************************************)
\* "x in list"
InList(x, list) == \E i \in 1..Len(list) : list[i] = x

\* the loop over game_versions that fills supported_game_version_ids
RECURSIVE CollectIds(_, _)
CollectIds(game_versions, supported) ==
    IF game_versions = <<>> THEN <<>>
    ELSE LET game_version == Head(game_versions)
             rest == CollectIds(Tail(game_versions), supported)
         IN  IF game_version.gameVersionTypeID = 1
                /\ InList(game_version.name, supported)
             THEN <<game_version.id>> \o rest
             ELSE rest

\* ', '.join(ids) raises TypeError unless every item is a str
JoinRaises(ids) == \E i \in 1..Len(ids) : ids[i].type # "str"

CurseforgeGet(status, body) ==
    [Exchange("GET", CurseforgeVersionsUrl, "", status) EXCEPT !.body = body]

CurseforgePost(project_id, status, ids) ==
    [Exchange("POST", CurseforgeUploadUrl, project_id, status) EXCEPT
        !.changelog = changelog,
        !.game_versions = ids,
        !.changelogType = "markdown",
        !.releaseType = "release"]

upload_curseforge(project_id) ==
    \E get_status \in Statuses, body \in Bodies, post_status \in Statuses :
        LET get == CurseforgeGet(get_status, body)
            ids == CollectIds(body.items, supported_game_versions)
        IN  IF body.kind = "notjson"
            THEN /\ requests' = Append(requests, get)
                 /\ Raise("JSONDecodeError", "upload_curseforge")
            ELSE IF body.kind = "object"
            THEN /\ requests' = Append(requests, get)
                 /\ Raise("AttributeError", "upload_curseforge")
            ELSE IF JoinRaises(ids)
            THEN /\ requests' = Append(requests, get)
                 /\ Raise("TypeError", "upload_curseforge")
            ELSE /\ requests' = requests \o
                       <<get, CurseforgePost(project_id, post_status, ids)>>
                 /\ IF RaisesForStatus(post_status)
                    THEN Raise("HTTPError", "upload_curseforge")
                    ELSE pc' = "done" /\ error' = error

MainCurseforge ==
    /\ pc = "modrinth_done"
    /\ IF Truthy(curseforge_project_id)
       THEN upload_curseforge(curseforge_project_id.value)
       ELSE pc' = "done" /\ UNCHANGED <<requests, error>>
    /\ UNCHANGED <<jars, pom, changelog_file, version, modrinth_project_id,
                   curseforge_project_id, minimum_game_version,
                   supported_game_versions, changelog, warned, ci_release>>

(***************************************************************************)
(* A whole run: __main__.                                                  *)
(***************************************************************************)
NotWritten == [written |-> FALSE, content |-> <<>>]

Init ==
    /\ pc = "start"
    /\ jars \in {0, 1}
    /\ pom \in Poms
    /\ changelog_file \in RunChangelogs
    /\ version \in TargetVersions
    /\ modrinth_project_id \in EnvValues
    /\ curseforge_project_id \in EnvValues
    /\ minimum_game_version = <<>>
    /\ supported_game_versions = <<>>
    /\ changelog = <<>>
    /\ warned = FALSE
    /\ ci_release = NotWritten
    /\ requests = <<>>
    /\ error = NoError

Next ==
    \/ Construct
    \/ SaveChangelog
    \/ MainModrinth
    \/ MainCurseforge

Spec == Init /\ [][Next]_vars

(***************************************************************************)
(* get_changelog_entries_for_version on its own, over every document of    *)
(* at most MaxLines lines of LinePool.                                     *)
(***************************************************************************)
InitChangelog ==
    /\ pc = "read"
    /\ jars = 1
    /\ pom = [kind |-> "absent", text |-> <<>>]
    /\ changelog_file \in {File(d) : d \in Documents}
    /\ version \in TargetVersions
    /\ modrinth_project_id = Unset
    /\ curseforge_project_id = Unset
    /\ minimum_game_version = <<>>
    /\ supported_game_versions = <<>>
    /\ changelog = <<>>
    /\ warned = FALSE
    /\ ci_release = NotWritten
    /\ requests = <<>>
    /\ error = NoError

ReadChangelog ==
    /\ pc = "read"
    /\ LET entries == get_changelog_entries_for_version(
                          changelog_file.lines, version)
       IN  /\ changelog' = entries.excerpt
           /\ warned' = entries.warned
    /\ pc' = "read_done"
    /\ UNCHANGED <<jars, pom, changelog_file, version, modrinth_project_id,
                   curseforge_project_id, minimum_game_version,
                   supported_game_versions, ci_release, requests, error>>

SpecChangelog == InitChangelog /\ [][ReadChangelog]_vars

(***************************************************************************)
(* get_base_version on its own, over every string of at most MaxVerLen     *)
(* characters of VersionChars.                                             *)
(***************************************************************************)
InitBaseVersion ==
    /\ pc = "normalize"
    /\ jars = 1
    /\ pom \in {PomText(s) : s \in VersionStrings}
    /\ changelog_file = NoFile
    /\ version = V120
    /\ modrinth_project_id = Unset
    /\ curseforge_project_id = Unset
    /\ minimum_game_version = <<>>
    /\ supported_game_versions = <<>>
    /\ changelog = <<>>
    /\ warned = FALSE
    /\ ci_release = NotWritten
    /\ requests = <<>>
    /\ error = NoError

NormalizeVersion ==
    /\ pc = "normalize"
    /\ minimum_game_version' = get_base_version(pom.text)
    /\ pc' = "normalized"
    /\ UNCHANGED <<jars, pom, changelog_file, version, modrinth_project_id,
                   curseforge_project_id, supported_game_versions, changelog,
                   warned, ci_release, requests, error>>

SpecBaseVersion == InitBaseVersion /\ [][NormalizeVersion]_vars

(***************************************************************************)
(* Properties.                                                             *)
(***************************************************************************)
Lines == changelog_file.lines

\* the line starts a level-2 heading
IsLevel2Heading(l) == StartsWith(Strip(l), H2Prefix)

\* the line is a heading "## <ver> (<YYYY-MM-DD>)": its text between the
\* heading markers is ver, a blank, and a parenthesised date
IsVersionHeading(l, ver) ==
    LET text == Strip(StripChars(Strip(l), {"#"}))
        n == Len(ver)
    IN  /\ IsLevel2Heading(l)
        /\ n > 0
        /\ AllIn(ver, Digits \cup {"."})
        /\ Len(text) = n + 13
        /\ SubSeq(text, 1, n) = ver
        /\ text[n + 1] = " " /\ text[n + 2] = "(" /\ text[n + 13] = ")"
        /\ text[n + 7] = "-" /\ text[n + 10] = "-"
        /\ \A k \in {3, 4, 5, 6, 8, 9, 11, 12} : text[n + k] \in Digits

\* line i lies in a section opened by a heading of version ver
InSectionOf(i, ver) ==
    /\ ~IsLevel2Heading(Lines[i])
    /\ \E j \in 1..(i - 1) :
          /\ IsVersionHeading(Lines[j], ver)
          /\ \A k \in (j + 1)..i : ~IsLevel2Heading(Lines[k])

\* the stripped lines of the sections of version ver, in document order
SectionLinesOf(ver) ==
    LET idx == {i \in 1..Len(Lines) : InSectionOf(i, ver)}
        nth(k) == CHOOSE i \in idx : Cardinality({j \in idx : j <= i}) = k
    IN  [k \in 1..Cardinality(idx) |-> Strip(Lines[nth(k)])]

\* C1: the excerpt is exactly the stripped lines that follow a heading
\* "## <version> (<date>)" of the target version, up to the next level-2
\* heading of any form, joined with newlines and trimmed; lines before the
\* first heading or in other sections never appear; when no heading is of
\* the target version the excerpt is empty and the warning is logged.
C1_ExcerptIsTargetSection ==
    pc = "read_done" =>
        /\ changelog = Strip(Join(SectionLinesOf(version), <<"\n">>))
        /\ (~\E j \in 1..Len(Lines) : IsVersionHeading(Lines[j], version))
              => changelog = <<>> /\ warned

\* a target section with text, closed by a heading that is no version heading
C1_Witness ==
    /\ pc = "read_done"
    /\ Len(Lines) = 3
    /\ IsVersionHeading(Lines[1], version)
    /\ InSectionOf(2, version)
    /\ IsLevel2Heading(Lines[3])
    /\ \A v \in TargetVersions : ~IsVersionHeading(Lines[3], v)
    /\ changelog = Strip(Lines[2])
    /\ changelog # <<>>

\* the run got past Uploader.__init__
Constructed == pc # "start" /\ ~(pc = "error" /\ error.where = "__init__")

LastVersion == AVAILABLE_GAME_VERSIONS[Len(AVAILABLE_GAME_VERSIONS)]

\* C2: after a successful construction supported_game_versions is the
\* suffix of AVAILABLE_GAME_VERSIONS that starts at the normalized minimum
\* (bukkit-api-version, or 1.14.4 when the property is absent) and ends with
\* the catalog's last entry; it is not empty and starts with the minimum.
C2_SupportedIsCatalogSuffix ==
    Constructed =>
        /\ pom.kind = "absent" => minimum_game_version = <<"1", ".", "1", "4">>
        /\ pom.kind = "text" =>
              minimum_game_version = get_base_version(Strip(pom.text))
        /\ supported_game_versions # <<>>
        /\ supported_game_versions[1] = minimum_game_version
        /\ supported_game_versions[Len(supported_game_versions)] = LastVersion
        /\ \E k \in 1..Len(AVAILABLE_GAME_VERSIONS) :
              /\ AVAILABLE_GAME_VERSIONS[k] = minimum_game_version
              /\ Len(supported_game_versions)
                    = Len(AVAILABLE_GAME_VERSIONS) - k + 1
              /\ \A i \in 1..Len(supported_game_versions) :
                    supported_game_versions[i]
                        = AVAILABLE_GAME_VERSIONS[k + i - 1]

\* a declared three-component minimum was collapsed and the window is a
\* proper suffix of the catalog
C2_Witness ==
    /\ pc = "constructed"
    /\ pom.kind = "text"
    /\ Strip(pom.text) # minimum_game_version
    /\ Len(supported_game_versions) > 1
    /\ Len(supported_game_versions) < Len(AVAILABLE_GAME_VERSIONS)

\* v is major.minor.patch with numeric components; the result is the
\* position of the second dot, 0 when v has no such form
SecondDot(v) ==
    LET dots == {i \in 1..Len(v) : v[i] = "."}
    IN  IF /\ Cardinality(dots) = 2
           /\ AllIn(v, Digits \cup {"."})
           /\ v[1] # "." /\ v[Len(v)] # "."
           /\ \A i \in dots : (i + 1) \notin dots
        THEN CHOOSE i \in dots : \A j \in dots : j <= i
        ELSE 0

\* C3: get_base_version maps major.minor.patch to major.minor and returns
\* every other string unchanged.
C3_ThreeComponentsCollapseElseUnchanged ==
    pc = "normalized" =>
        LET v == pom.text
            dot == SecondDot(v)
        IN  minimum_game_version =
                IF dot # 0 THEN SubSeq(v, 1, dot - 1) ELSE v

HasRequestTo(urls) == \E i \in 1..Len(requests) : requests[i].url \in urls

CurseforgeUrls == {CurseforgeVersionsUrl, CurseforgeUploadUrl}

\* C4: with MODRINTH_PROJECT_ID unset nothing is sent to Modrinth, with
\* CURSEFORGE_PROJECT_ID unset neither the CurseForge GET nor the POST is
\* sent; a skipped target is no error and the other target is still
\* uploaded.
C4_UnsetTargetIsSkipped ==
    /\ ~modrinth_project_id.set =>
          /\ ~HasRequestTo({ModrinthUrl})
          /\ error.where # "upload_modrinth"
          /\ (pc = "done" /\ Truthy(curseforge_project_id))
                => HasRequestTo({CurseforgeVersionsUrl})
    /\ ~curseforge_project_id.set =>
          /\ ~HasRequestTo(CurseforgeUrls)
          /\ error.where # "upload_curseforge"
          /\ (pc \in {"modrinth_done", "done"} /\ Truthy(modrinth_project_id))
                => (HasRequestTo({ModrinthUrl}) /\ error = NoError)

\* Modrinth was skipped and CurseForge was still uploaded
C4_Witness ==
    /\ pc = "done"
    /\ ~modrinth_project_id.set
    /\ Len(requests) = 2
    /\ requests[2].url = CurseforgeUploadUrl

IsUploadPost(r) ==
    r.method = "POST" /\ r.url \in {ModrinthUrl, CurseforgeUploadUrl}

C5_FailedPostIsLast ==
    \A i \in 1..Len(requests) :
        (IsUploadPost(requests[i]) /\ requests[i].status >= 400) =>
            /\ pc = "error"
            /\ error.type = "HTTPError"
            /\ i = Len(requests)
            /\ ci_release = [written |-> TRUE, content |-> changelog]
            /\ Truthy(modrinth_project_id) =>
                  /\ requests[1].url = ModrinthUrl
                  /\ (i > 1 => requests[1].status < 400)

C6_CurseforgeNonSuccessIsFatal ==
    \A i \in 1..Len(requests) :
        (requests[i].url \in CurseforgeUrls /\ ~Is2xx(requests[i].status)) =>
            /\ pc = "error"
            /\ error.where = "upload_curseforge"
            /\ i = Len(requests)

AllNumericIds(game_versions) ==
    \A k \in 1..Len(game_versions) : game_versions[k].id.type = "int"

\* C7: after a successful GET that answers a list of records with numeric
\* ids, exactly one POST follows, to the upload-file endpoint, carrying the
\* ids of the records of type 1 whose name is supported, in response order,
\* with the changelog, changelogType markdown and releaseType release.
C7_PostCarriesSupportedIds ==
    \A i \in 1..Len(requests) :
        LET get == requests[i]
        IN  (/\ get.url = CurseforgeVersionsUrl
             /\ Is2xx(get.status)
             /\ get.body.kind = "list"
             /\ AllNumericIds(get.body.items)) =>
                /\ Len(requests) = i + 1
                /\ requests[i + 1].method = "POST"
                /\ requests[i + 1].url = CurseforgeUploadUrl
                /\ requests[i + 1].project_id = curseforge_project_id.value
                /\ requests[i + 1].game_versions
                      = CollectIds(get.body.items, supported_game_versions)
                /\ requests[i + 1].changelog = changelog
                /\ requests[i + 1].changelogType = "markdown"
                /\ requests[i + 1].releaseType = "release"

InCatalog(v) == \E k \in 1..Len(AVAILABLE_GAME_VERSIONS) :
                    AVAILABLE_GAME_VERSIONS[k] = v

\* C8: when no jar exists under target, or the normalized minimum is not in
\* the catalog, construction ends the run with the failed lookup's
\* exception; ci-release.md is not written and no request is sent.
C8_FailedLookupEndsRun ==
    (/\ pc # "start"
     /\ \/ jars = 0
        \/ /\ pom.kind = "text"
           /\ ~InCatalog(get_base_version(Strip(pom.text)))) =>
        /\ pc = "error"
        /\ error.where = "__init__"
        /\ error.type = (IF jars = 0 THEN "IndexError" ELSE "ValueError")
        /\ ci_release = NotWritten
        /\ requests = <<>>

\* the artifact exists and the declared minimum is unknown to the catalog
C8_Witness ==
    /\ pc = "error"
    /\ jars = 1
    /\ error.type = "ValueError"
    /\ ~InCatalog(minimum_game_version)

StepOf(r) ==
    IF r.url = ModrinthUrl THEN 1
    ELSE IF r.url = CurseforgeVersionsUrl THEN 2
    ELSE 3

PcOrder(p) ==
    CASE p = "start" -> 0
      [] p = "constructed" -> 1
      [] p = "saved" -> 2
      [] p = "modrinth_done" -> 3
      [] OTHER -> 4

C9_RequestsInOrder ==
    /\ \A i, j \in 1..Len(requests) :
          i < j => StepOf(requests[i]) < StepOf(requests[j])
    /\ requests # <<>> => ci_release.written
    /\ ci_release.written => Constructed

C9_StepForward ==
    /\ PcOrder(pc) < PcOrder(pc')
    /\ pc # "error" /\ pc # "done"
    /\ supported_game_versions' # supported_game_versions => pc = "start"
    /\ ci_release' # ci_release => (pc = "constructed" /\ pc' = "saved")
    /\ requests' # requests =>
          /\ pc \in {"saved", "modrinth_done"}
          /\ SubSeq(requests', 1, Len(requests)) = requests

\* C9: a run is a linear sequence: construct, write ci-release.md, Modrinth
\* POST, CurseForge GET, CurseForge POST, each at most once and in this
\* order, with ci-release.md written before any request; no step goes back.
C9_RunIsLinear == [](C9_RequestsInOrder) /\ [][C9_StepForward]_vars

\* a complete run that took every step
C9_Witness ==
    /\ pc = "done"
    /\ Len(requests) = 3
    /\ ci_release.written

\* C10: the warning is logged if and only if the returned excerpt is empty.
C10_WarnsIffExcerptEmpty ==
    pc = "read_done" => (warned <=> changelog = <<>>)
====
